---- MODULE Spec2Model ----
(***************************************************************************)
(* A model of genomic-rs: the Crossover and Mutator traversal sessions     *)
(* (src/src/traverse.rs), the top-level mutate / crossover / reproduce     *)
(* calls (src/src/lib.rs), the Genome implementations for leaves,          *)
(* sequences and tuples (src/src/genome.rs), the scalar mutation operators *)
(* (src/src/chromosome/*.rs, src/src/wrapper/{fixed,uniform}.rs) and the   *)
(* ReorderGenome wrapper (src/src/wrapper/reorder.rs).                     *)
(*                                                                         *)
(* Random draws are nondeterministic choices over the outcomes the draw    *)
(* can produce.  A panic (failed assertion, arithmetic overflow in a build *)
(* with overflow checks, rejected probability, empty range) moves the      *)
(* machine to the status "panicked"; the variable build tells whether      *)
(* debug assertions and overflow checks are compiled in.                   *)
(***************************************************************************)
EXTENDS Integers, Sequences, FiniteSets, Bags, TLC

VARIABLES
    build,             \* "debug" (debug_assert!, overflow checks) or "release"
    \* ---- top-level calls of lib.rs and the traversal sessions
    call,              \* "none" | "crossover" | "reproduce" | "mutate"
    status,            \* "idle" | "crossover" | "mutate_left" | "mutate_right"
                       \* | "returned" | "panicked"
    parent_left,       \* the caller's individuals as they are when the call is made
    parent_right,      \* (reproduce: the borrowed parents)
    individual_left,   \* the individuals the session borrows mutably
    individual_right,  \* (reproduce: child_left, child_right)
    crossover_method,  \* the method parameter of crossover / reproduce
    method,            \* Crossover.method: the stack of sessions, outermost first
    pc,                \* position of the traversal in its itinerary
    mutation_rate,     \* reproduce's / mutate's rate parameter
    \* ---- Mutator session
    rate,              \* Mutator.rate
    frames,            \* the open multiply_rate calls: their old_rate and multiplier
    rate0,             \* the rate the Mutator was constructed with
    \* ---- one scalar chromosome and its mutation operator
    ch,                \* [enc, ty, value, min, max, bits]
    ch_rate,           \* the rate of the mutate calls
    ch_old,            \* the value before the last mutate call
    ch_status,         \* "ready" | "returned" | "panicked"
    \* ---- ReorderGenome::Swap
    vec,               \* the referenced contents, in iteration order
    vec0,              \* the contents when mutate_with was called
    swaps,             \* iterations of the swap loop still to run
    re_status          \* "ready" | "loop" | "returned" | "panicked"

genomeVars  == <<call, status, parent_left, parent_right, individual_left,
                 individual_right, crossover_method, method, pc, mutation_rate>>
mutatorVars == <<rate, frames, rate0>>
scalarVars  == <<ch, ch_rate, ch_old, ch_status>>
reorderVars == <<vec, vec0, swaps, re_status>>
vars == <<build, genomeVars, mutatorVars, scalarVars, reorderVars>>

Builds == {"debug", "release"}

(***************************************************************************)
(* f64 values.  A finite value is the reduced fraction <<n, d>>, d > 0;    *)
(* NaN is <<0, 0>>, +inf is <<1, 0>> and -inf is <<-1, 0>>.  The rates of  *)
(* the model are dyadic fractions, which f64 holds exactly.                *)
(***************************************************************************)
Abs(n) == IF n < 0 THEN -n ELSE n

RECURSIVE GCD(_, _)
GCD(a, b) == IF b = 0 THEN a ELSE GCD(b, a % b)

Sign(n) == IF n < 0 THEN -1 ELSE IF n > 0 THEN 1 ELSE 0

\* n / d as an f64, for integers n, d (d may be 0: x/0.0 is inf or NaN)
Frac(n, d) ==
    IF d = 0 THEN <<Sign(n), 0>>
    ELSE LET g == GCD(Abs(n), Abs(d))
         IN  <<(Sign(d) * n) \div g, Abs(d) \div g>>

NaN    == <<0, 0>>
Inf    == <<1, 0>>
NegInf == <<-1, 0>>

IsNaN(a) == a = NaN

FLt(a, b) == a[1] * b[2] < b[1] * a[2]
FLe(a, b) == ~IsNaN(a) /\ ~IsNaN(b) /\ a[1] * b[2] <= b[1] * a[2]

FMul(a, b) ==
    IF IsNaN(a) \/ IsNaN(b) THEN NaN
    ELSE IF a[2] = 0 \/ b[2] = 0 THEN <<Sign(a[1]) * Sign(b[1]), 0>>
    ELSE Frac(a[1] * b[1], a[2] * b[2])

\* f64::min: the other operand when one is NaN
FMin(a, b) == IF IsNaN(a) THEN b ELSE IF IsNaN(b) THEN a ELSE IF FLt(b, a) THEN b ELSE a

\* f64::clamp(0.0, 1.0): NaN stays NaN
FClamp01(a) ==
    IF IsNaN(a) THEN NaN
    ELSE IF FLt(a, Frac(0, 1)) THEN Frac(0, 1)
    ELSE IF FLt(Frac(1, 1), a) THEN Frac(1, 1)
    ELSE a

InUnit(a) == FLe(Frac(0, 1), a) /\ FLe(a, Frac(1, 1))

(***************************************************************************)
(* The random number generator.  gen_bool(p) and Bernoulli::new(p) reject  *)
(* a p outside [0, 1] (NaN included); p = 0 never yields true and p = 1    *)
(* always does.  An outcome is "true", "false" or "panic".                 *)
(***************************************************************************)
gen_bool(p) ==
    IF ~InUnit(p) THEN {"panic"}
    ELSE IF p = Frac(0, 1) THEN {"false"}
    ELSE IF p = Frac(1, 1) THEN {"true"}
    ELSE {"false", "true"}

(***************************************************************************)
(* Genomes.  A shape is a leaf (a bool chromosome), an ordered sequence    *)
(* (Vec<G>, [G]), a tuple, or a group: the sub-genomes a Genome impl       *)
(* visits inside one Crossover::group / Mutator::group callback.  An       *)
(* individual is its shape and the values of its leaves in declared order. *)
(***************************************************************************)
Leaf         == [t |-> "leaf",  items |-> <<>>]
Vec(items)   == [t |-> "vec",   items |-> items]
Tuple(items) == [t |-> "tuple", items |-> items]
Group(items) == [t |-> "group", items |-> items]

\* a user-defined Genome whose size_hint returns an invalid amount, 0, for the
\* chromosomes its mutate and crossover visit
Miscounted(items) == [t |-> "miscounted", items |-> items]

\* the number of leaves a traversal of s reaches
RECURSIVE NLeaves(_)
NLeaves(s) ==
    IF s.t = "leaf" THEN 1
    ELSE IF s.items = <<>> THEN 0
    ELSE NLeaves(Head(s.items)) + NLeaves([s EXCEPT !.items = Tail(@)])

\* a size_hint that counts the elements of a sequence or tuple, not their parts
size_hint_flat(s) ==
    IF s.t \in {"leaf", "group"} THEN 1
    ELSE IF s.t = "miscounted" THEN 0
    ELSE Len(s.items)

\* Genome::size_hint: 1 for a leaf, the sum of the parts for sequences and
\* tuples; a group accounts for exactly 1 (test_group's size_hint is 2)
RECURSIVE size_hint(_)
size_hint(s) ==
    IF s.t \in {"leaf", "group"} THEN 1
    ELSE IF s.t = "miscounted" \/ s.items = <<>> THEN 0
    ELSE size_hint(Head(s.items)) + size_hint([s EXCEPT !.items = Tail(@)])

\* Genome::crossover: the calls a crossover of a with b makes on the session,
\* in order.  offL and offR are the numbers of leaves of the two individuals
\* that precede a and b.  Crossover::iter zips, so it stops at the shorter side.
RECURSIVE Walk(_, _, _, _)
RECURSIVE WalkItems(_, _, _, _)
Walk(a, b, offL, offR) ==
    IF a.t = "leaf" THEN << [op |-> "leaf", l |-> offL + 1, r |-> offR + 1] >>
    ELSE IF a.t = "group"
    THEN << [op |-> "open", l |-> 0, r |-> 0] >>
         \o WalkItems(a.items, b.items, offL, offR)
         \o << [op |-> "close", l |-> 0, r |-> 0] >>
    ELSE WalkItems(a.items, b.items, offL, offR)
\* a pairing that skips the front of the longer sequence instead of its end
WalkItemsFromEnd(as, bs, offL, offR) ==
    IF as = <<>> \/ bs = <<>> THEN <<>>
    ELSE IF Len(as) > Len(bs)
    THEN WalkItems(Tail(as), bs, offL + NLeaves(Head(as)), offR)
    ELSE IF Len(bs) > Len(as)
    THEN WalkItems(as, Tail(bs), offL, offR + NLeaves(Head(bs)))
    ELSE Walk(Head(as), Head(bs), offL, offR)
         \o WalkItems(Tail(as), Tail(bs),
                      offL + NLeaves(Head(as)), offR + NLeaves(Head(bs)))

WalkItems(as, bs, offL, offR) ==
    IF as = <<>> \/ bs = <<>> THEN <<>>
    ELSE Walk(Head(as), Head(bs), offL, offR)
         \o WalkItems(Tail(as), Tail(bs),
                      offL + NLeaves(Head(as)), offR + NLeaves(Head(bs)))

Itinerary == Walk(individual_left.shape, individual_right.shape, 0, 0)

(***************************************************************************)
(* CrossoverState.  kind is "Uniform" (rate), "KPoint" (count, length,     *)
(* swapped, desired) or "Fixed" (res); the fields a kind does not have     *)
(* are held at a fixed value.                                              *)
(***************************************************************************)
Uniform(r) == [kind |-> "Uniform", rate |-> r, count |-> 0, length |-> 0,
               swapped |-> 0, desired |-> 0, res |-> FALSE]
KPoint(c, len, s, d) == [kind |-> "KPoint", rate |-> Frac(0, 1), count |-> c,
                         length |-> len, swapped |-> s, desired |-> d, res |-> FALSE]
Fixed(b) == [kind |-> "Fixed", rate |-> Frac(0, 1), count |-> 0, length |-> 0,
             swapped |-> 0, desired |-> 0, res |-> b]

\* CrossoverMethod, the parameter of crossover and reproduce
MethodUniform(r) == [kind |-> "Uniform", rate |-> r, amount |-> 0]
MethodKPoint(k)  == [kind |-> "KPoint", rate |-> Frac(0, 1), amount |-> k]

\* the match of lib.rs: the session state a method starts with
InitialState(m, left) ==
    IF m.kind = "Uniform" THEN Uniform(m.rate)
    ELSE KPoint(0, size_hint(left.shape), 0, m.amount)

Flip(b) == IF b THEN "true" ELSE "false"

\* a KPoint arm that takes a transition on a fair coin, whatever is still owed
KPointFlipCoin(m, bld) ==
    { LET s == IF d = "true" THEN m.swapped + 1 ELSE m.swapped
      IN  [res |-> Flip(s % 2 = 1), method |-> [m EXCEPT !.swapped = s]]
      : d \in IF m.count < m.length THEN gen_bool(Frac(1, 2)) ELSE {"false"} }

\* a KPoint arm that answers with its draw instead of the parity of swapped
KPointFlipDraw(m, bld) ==
    LET p == FMin(Frac(m.desired - m.swapped, m.length - m.count), Frac(1, 1))
    IN  { IF d = "panic" THEN [res |-> "panic", method |-> m]
          ELSE [res |-> d,
                method |-> [m EXCEPT !.swapped = IF d = "true" THEN @ + 1 ELSE @]]
          : d \in IF m.count < m.length THEN gen_bool(p) ELSE {"false"} }

\* Crossover::should_flip, KPoint arm.  The u64 subtractions panic on
\* underflow where overflow is checked and wrap otherwise; a wrapped operand
\* makes the probability an arbitrary value, so the draw may go either way.
KPointFlip(m, bld) ==
    LET underflow == m.swapped > m.desired \/ m.count > m.length
        p == FMin(Frac(m.desired - m.swapped, m.length - m.count), Frac(1, 1))
        draws == IF ~(m.count < m.length) THEN {"false"}
                 ELSE IF underflow THEN {"false", "true"}
                 ELSE gen_bool(p)
    IN  IF underflow /\ bld = "debug" THEN { [res |-> "panic", method |-> m] }
        ELSE { IF d = "panic" THEN [res |-> "panic", method |-> m]
               ELSE LET s == IF d = "true" THEN m.swapped + 1 ELSE m.swapped
                    IN  [res |-> Flip(s % 2 = 1), method |-> [m EXCEPT !.swapped = s]]
               : d \in draws }

\* a should_flip whose Uniform arm draws a fair coin whatever the rate is
should_flip_coin(m, bld) ==
    IF m.kind = "Uniform"
    THEN { [res |-> d, method |-> m] : d \in gen_bool(Frac(1, 2)) }
    ELSE IF m.kind = "KPoint" THEN KPointFlip(m, bld)
    ELSE { [res |-> Flip(m.res), method |-> m] }

\* Crossover::should_flip: the possible results, each with the session state
\* it leaves
should_flip(m, bld) ==
    IF m.kind = "Uniform"
    THEN { [res |-> d, method |-> m] : d \in gen_bool(FMul(m.rate, Frac(1, 2))) }
    ELSE IF m.kind = "KPoint" THEN KPointFlip(m, bld)
    ELSE { [res |-> Flip(m.res), method |-> m] }

\* a swap that overwrites the left leaf and forgets its old value
SwapLeavesCopy(left, right, i, j) ==
    << [left EXCEPT !.leaves[i] = right.leaves[j]], right >>

\* a swap that overwrites the right leaf and forgets its old value
SwapLeavesDropRight(left, right, i, j) ==
    << left, [right EXCEPT !.leaves[j] = left.leaves[i]] >>

\* std::mem::swap(ch_left, ch_right) on leaf i of the left individual and leaf
\* j of the right one: the two individuals after it
SwapLeaves(left, right, i, j) ==
    << [left  EXCEPT !.leaves[i] = right.leaves[j]],
       [right EXCEPT !.leaves[j] = left.leaves[i]] >>

\* a group whose callback runs against the enclosing policy itself
GroupSessionOuter(outer, flip) == outer

\* the nested session Crossover::group runs its callback against
GroupSession(outer, flip) == Fixed(flip)

Top(stack) == stack[Len(stack)]

(***************************************************************************)
(* The individuals and parameters the calls are made with.                 *)
(***************************************************************************)
MaxK == 3

ShapePairs ==
    { << Vec(<<Leaf, Leaf, Leaf>>), Vec(<<Leaf, Leaf, Leaf>>) >>,
      << Tuple(<<Leaf, Vec(<<Leaf, Leaf>>)>>), Tuple(<<Leaf, Vec(<<Leaf, Leaf>>)>>) >>,
      << Tuple(<<Group(<<Vec(<<Leaf, Leaf>>)>>), Group(<<Vec(<<Leaf, Leaf>>)>>)>>),
         Tuple(<<Group(<<Vec(<<Leaf, Leaf>>)>>), Group(<<Vec(<<Leaf, Leaf>>)>>)>>) >>,
      << Tuple(<<Leaf, Group(<<Leaf, Group(<<Leaf>>)>>)>>),
         Tuple(<<Leaf, Group(<<Leaf, Group(<<Leaf>>)>>)>>) >>,
      << Vec(<<>>), Vec(<<>>) >>,
      << Vec(<<Leaf, Leaf, Leaf>>), Vec(<<Leaf, Leaf>>) >>,
      << Vec(<<Leaf, Leaf>>), Vec(<<Leaf, Leaf, Leaf>>) >>,
      << Vec(<<Vec(<<Leaf, Leaf>>), Vec(<<Leaf>>)>>),
         Vec(<<Vec(<<Leaf>>), Vec(<<Leaf, Leaf>>)>>) >>,
      << Miscounted(<<Leaf, Leaf>>), Miscounted(<<Leaf, Leaf>>) >> }

\* leaf values: left and right differ at every index
LeavesOf(shape, pattern, side) ==
    [i \in 1..NLeaves(shape) |->
        IF pattern = "const" THEN side = "right" ELSE (i % 2 = 1) = (side = "left")]

Individual(shape, pattern, side) ==
    [shape |-> shape, leaves |-> LeavesOf(shape, pattern, side)]

NoIndividual == [shape |-> Vec(<<>>), leaves |-> <<>>]

UniformRates  == {Frac(0, 1), Frac(1, 2), Frac(1, 1), Frac(2, 1), Frac(3, 1)}
Methods       == {MethodUniform(r) : r \in UniformRates}
                 \cup {MethodKPoint(k) : k \in 0..MaxK}
MutationRates == {Frac(0, 1), Frac(1, 1), Frac(2, 1), Frac(3, 1)}
NoMethod      == MethodUniform(Frac(0, 1))

(***************************************************************************)
(* Idle values of the machines a specification does not run.               *)
(***************************************************************************)
GenomeIdle ==
    /\ call = "none" /\ status = "idle"
    /\ parent_left = NoIndividual /\ parent_right = NoIndividual
    /\ individual_left = NoIndividual /\ individual_right = NoIndividual
    /\ crossover_method = NoMethod
    /\ method = <<>> /\ pc = 0 /\ mutation_rate = Frac(0, 1)
MutatorIdle == rate = Frac(0, 1) /\ frames = <<>> /\ rate0 = Frac(0, 1)
NoChromosome == [enc |-> "none", ty |-> "none", value |-> 0, min |-> 0, max |-> 0,
                 bits |-> 0]
ScalarIdle  == ch = NoChromosome /\ ch_rate = Frac(0, 1) /\ ch_old = 0
               /\ ch_status = "ready"
ReorderIdle == vec = <<>> /\ vec0 = <<>> /\ swaps = 0 /\ re_status = "ready"

(***************************************************************************)
(* crossover, reproduce and mutate of lib.rs, and the traversals they      *)
(* start.                                                                  *)
(***************************************************************************)
Init ==
    /\ build \in Builds
    /\ \E sp \in ShapePairs, pattern \in {"const", "alt"} :
          /\ parent_left  = Individual(sp[1], pattern, "left")
          /\ parent_right = Individual(sp[2], pattern, "right")
    /\ call = "none" /\ status = "idle"
    /\ individual_left = NoIndividual /\ individual_right = NoIndividual
    /\ crossover_method = NoMethod
    /\ method = <<>> /\ pc = 0 /\ mutation_rate = Frac(0, 1)
    /\ MutatorIdle /\ ScalarIdle /\ ReorderIdle

\* debug_assert_eq!(left.size_hint(), right.size_hint())
SizeHintAssertFails ==
    build = "debug" /\ size_hint(parent_left.shape) # size_hint(parent_right.shape)

\* crossover(individual_left, individual_right, method, rng), up to the
\* construction of the session (lib.rs 38-55)
CallCrossover(m) ==
    /\ status = "idle"
    /\ call' = "crossover"
    /\ crossover_method' = m
    /\ IF SizeHintAssertFails
       THEN /\ status' = "panicked"
            /\ UNCHANGED <<individual_left, individual_right, method, pc>>
       ELSE /\ status' = "crossover"
            /\ individual_left' = parent_left
            /\ individual_right' = parent_right
            /\ method' = << InitialState(m, parent_left) >>
            /\ pc' = 1
    /\ UNCHANGED <<build, parent_left, parent_right, mutation_rate, mutatorVars,
                   scalarVars, reorderVars>>

\* reproduce(parent_left, parent_right, crossover_method, mutation_rate, rng),
\* up to the construction of the crossover session: both assertions, the clones
\* (lib.rs 77-81, 44-55)
CallReproduce(m, r) ==
    /\ status = "idle"
    /\ call' = "reproduce"
    /\ crossover_method' = m
    /\ mutation_rate' = r
    /\ IF SizeHintAssertFails
       THEN /\ status' = "panicked"
            /\ UNCHANGED <<individual_left, individual_right, method, pc>>
       ELSE /\ status' = "crossover"
            /\ individual_left' = parent_left
            /\ individual_right' = parent_right
            /\ method' = << InitialState(m, parent_left) >>
            /\ pc' = 1
    /\ UNCHANGED <<build, parent_left, parent_right, mutatorVars, scalarVars,
                   reorderVars>>

\* mutate(individual, rate, rng), up to the construction of the Mutator
\* (lib.rs 25-26)
CallMutate(r) ==
    /\ status = "idle"
    /\ call' = "mutate"
    /\ mutation_rate' = r
    /\ status' = "mutate_left"
    /\ individual_left' = parent_left
    /\ rate' = r /\ rate0' = r
    /\ pc' = 1
    /\ UNCHANGED <<build, parent_left, parent_right, individual_right,
                   crossover_method, method, frames, scalarVars, reorderVars>>

\* Crossover::chromosome on the next leaf pair (Genome for Ch)
CrossoverChromosome ==
    /\ status = "crossover"
    /\ pc <= Len(Itinerary)
    /\ Itinerary[pc].op = "leaf"
    /\ \E o \in should_flip(Top(method), build) :
          IF o.res = "panic"
          THEN /\ status' = "panicked"
               /\ UNCHANGED <<individual_left, individual_right, method, pc>>
          ELSE /\ method' = [method EXCEPT ![Len(method)] = o.method]
               /\ LET after == IF o.res = "true"
                               THEN SwapLeaves(individual_left, individual_right,
                                               Itinerary[pc].l, Itinerary[pc].r)
                               ELSE <<individual_left, individual_right>>
                  IN  /\ individual_left' = after[1]
                      /\ individual_right' = after[2]
               /\ pc' = pc + 1
               /\ UNCHANGED status
    /\ UNCHANGED <<build, call, crossover_method, parent_left, parent_right, mutation_rate,
                   mutatorVars, scalarVars, reorderVars>>

\* Crossover::group up to the call of its callback: one decision of the
\* enclosing session, and the nested session (traverse.rs 283-290)
CrossoverGroup ==
    /\ status = "crossover"
    /\ pc <= Len(Itinerary)
    /\ Itinerary[pc].op = "open"
    /\ \E o \in should_flip(Top(method), build) :
          IF o.res = "panic"
          THEN /\ status' = "panicked"
               /\ UNCHANGED <<method, pc>>
          ELSE /\ method' = Append([method EXCEPT ![Len(method)] = o.method],
                                   GroupSession(o.method, o.res = "true"))
               /\ pc' = pc + 1
               /\ UNCHANGED status
    /\ UNCHANGED <<build, call, crossover_method, parent_left, parent_right, individual_left,
                   individual_right, mutation_rate, mutatorVars, scalarVars,
                   reorderVars>>

\* the callback of Crossover::group returns: the nested session is dropped
\* (traverse.rs 290-292)
CrossoverGroupReturn ==
    /\ status = "crossover"
    /\ pc <= Len(Itinerary)
    /\ Itinerary[pc].op = "close"
    /\ method' = SubSeq(method, 1, Len(method) - 1)
    /\ pc' = pc + 1
    /\ UNCHANGED <<build, call, crossover_method, status, parent_left, parent_right, individual_left,
                   individual_right, mutation_rate, mutatorVars, scalarVars,
                   reorderVars>>

\* the traversal is complete and crossover returns; reproduce goes on to seed
\* the children's generators and to mutate child_left (lib.rs 57-58, 83-87)
CrossoverReturn ==
    /\ status = "crossover"
    /\ pc > Len(Itinerary)
    /\ method' = <<>>
    /\ IF call = "reproduce"
       THEN /\ status' = "mutate_left"
            /\ rate' = mutation_rate /\ rate0' = mutation_rate
            /\ pc' = 1
       ELSE /\ status' = "returned"
            /\ pc' = 0
            /\ UNCHANGED <<rate, rate0>>
    /\ UNCHANGED <<build, call, crossover_method, parent_left, parent_right, individual_left,
                   individual_right, mutation_rate, frames, scalarVars, reorderVars>>

\* Chromosome for bool: the possible values after mutate(rate, rng), or "panic"
BoolMutate(value, r) ==
    { IF d = "panic" THEN "panic" ELSE Flip(IF d = "true" THEN ~value ELSE value)
      : d \in gen_bool(FMul(r, Frac(1, 2))) }

Mutated == IF status = "mutate_left" THEN individual_left ELSE individual_right

\* Mutator::chromosome on the next leaf of the individual being mutated
\* (Genome for Ch; Mutator::iter, Mutator::genome and Mutator::group only
\* pass the session on)
MutatorChromosome ==
    /\ status \in {"mutate_left", "mutate_right"}
    /\ pc <= NLeaves(Mutated.shape)
    /\ \E v \in BoolMutate(Mutated.leaves[pc], rate) :
          IF v = "panic"
          THEN /\ status' = "panicked"
               /\ UNCHANGED <<individual_left, individual_right, pc>>
          ELSE /\ IF status = "mutate_left"
                  THEN /\ individual_left' =
                             [individual_left EXCEPT !.leaves[pc] = (v = "true")]
                       /\ UNCHANGED individual_right
                  ELSE /\ individual_right' =
                             [individual_right EXCEPT !.leaves[pc] = (v = "true")]
                       /\ UNCHANGED individual_left
               /\ pc' = pc + 1
               /\ UNCHANGED status
    /\ UNCHANGED <<build, call, crossover_method, parent_left, parent_right, method, mutation_rate,
                   mutatorVars, scalarVars, reorderVars>>

\* mutate returns; reproduce goes on to mutate child_right and then returns
\* both children (lib.rs 28-29, 88-90)
MutateReturn ==
    /\ status \in {"mutate_left", "mutate_right"}
    /\ pc > NLeaves(Mutated.shape)
    /\ IF call = "reproduce" /\ status = "mutate_left"
       THEN /\ status' = "mutate_right"
            /\ rate' = mutation_rate /\ rate0' = mutation_rate
            /\ pc' = 1
            /\ UNCHANGED mutation_rate
       ELSE /\ status' = "returned"
            /\ pc' = 0
            /\ mutation_rate' = Frac(0, 1)
            /\ rate' = Frac(0, 1) /\ rate0' = Frac(0, 1)
    /\ UNCHANGED <<build, call, crossover_method, parent_left, parent_right, individual_left,
                   individual_right, method, frames, scalarVars, reorderVars>>

Next ==
    \/ \E m \in Methods : CallCrossover(m)
    \/ \E m \in Methods, r \in MutationRates : CallReproduce(m, r)
    \/ \E r \in MutationRates : CallMutate(r)
    \/ CrossoverChromosome
    \/ CrossoverGroup
    \/ CrossoverGroupReturn
    \/ CrossoverReturn
    \/ MutatorChromosome
    \/ MutateReturn

Spec == Init /\ [][Next]_vars

\* a genome built from leaves, sequences and tuples only
RECURSIVE PlainShape(_)
PlainShape(s) ==
    \/ s.t = "leaf"
    \/ s.t \in {"vec", "tuple"} /\ \A i \in 1..Len(s.items) : PlainShape(s.items[i])

\* the calls made on genomes of leaves, sequences and tuples: no Genome impl
\* of these calls Crossover::group
InitPlain ==
    /\ Init
    /\ PlainShape(parent_left.shape) /\ PlainShape(parent_right.shape)

\* a traversal is straight-line code of one thread: once a call is made, its
\* next step is taken.  Whether a call is made at all is the caller's choice.
Traverse ==
    \/ CrossoverChromosome
    \/ CrossoverReturn
    \/ MutatorChromosome
    \/ MutateReturn

\* the parameters of these calls: every K-point method, a uniform one, and
\* one rate that is not a probability for each of the two sessions
PlainMethods == {MethodUniform(Frac(1, 2)), MethodUniform(Frac(3, 1))}
                \cup {MethodKPoint(k) : k \in 0..MaxK}
PlainRates   == {Frac(1, 1), Frac(3, 1)}

NextPlain ==
    \/ \E m \in PlainMethods : CallCrossover(m)
    \/ \E m \in PlainMethods, r \in PlainRates : CallReproduce(m, r)
    \/ \E r \in PlainRates : CallMutate(r)
    \/ Traverse

SpecFair == InitPlain /\ [][NextPlain]_vars /\ WF_vars(Traverse)

(***************************************************************************)
(* Properties of crossover and reproduce (specification Spec).             *)
(***************************************************************************)
\* the crossover traversal of the call is complete
CrossoverDone ==
    \/ status = "crossover" /\ pc > Len(Itinerary)
    \/ call = "crossover" /\ status = "returned"
    \/ call = "reproduce" /\ status = "mutate_left" /\ pc = 1

\* no mutation has touched the individuals since the crossover began
InCrossover == status = "crossover" \/ CrossoverDone

\* leaf token t of the itinerary has been visited
Visited(t) == CrossoverDone \/ (status = "crossover" /\ t < pc)

\* the leaf pair of token t is exchanged (left and right differ at every index
\* of the individuals the calls are made with)
Exchanged(t) ==
    individual_left.leaves[Itinerary[t].l] # parent_left.leaves[Itinerary[t].l]

Opens(t)  == Cardinality({a \in 1..(t - 1) : Itinerary[a].op = "open"})
Closes(t) == Cardinality({a \in 1..(t - 1) : Itinerary[a].op = "close"})
Depth(t)  == Opens(t) - Closes(t)

\* the outermost Crossover::group call whose callback visits token t
OutermostGroup(t) ==
    CHOOSE a \in 1..(t - 1) :
        /\ Itinerary[a].op = "open" /\ Depth(a) = 0
        /\ \A b \in (a + 1)..(t - 1) : ~(Itinerary[b].op = "open" /\ Depth(b) = 0)

GroupLeaves == {t \in 1..Len(Itinerary) : Itinerary[t].op = "leaf" /\ Depth(t) > 0}

EqualShapes == parent_left.shape = parent_right.shape

\* C1: the leaf pairs visited inside one Crossover::group callback (directly or
\* through sequences, tuples and nested groups) are all exchanged or all left
\* in place, for every method and every outcome of the random draws.
C1_GroupAtomic ==
    (InCrossover /\ EqualShapes) =>
        \A t1, t2 \in GroupLeaves :
            (Visited(t1) /\ Visited(t2) /\ OutermostGroup(t1) = OutermostGroup(t2))
                => (Exchanged(t1) = Exchanged(t2))

\* C1 witness: a Uniform crossover has finished with one two-leaf group
\* exchanged as a whole and another group left in place.
C1_Witness ==
    /\ CrossoverDone /\ EqualShapes /\ crossover_method.kind = "Uniform"
    /\ \E t1, t2, t3 \in GroupLeaves :
          /\ t1 # t2 /\ OutermostGroup(t1) = OutermostGroup(t2)
          /\ Exchanged(t1) /\ Exchanged(t2) /\ ~Exchanged(t3)

\* C2: during and after a crossover of two genomes of equal shape every leaf
\* position holds its original (left, right) pair of values or that pair
\* exchanged, and the shapes are the ones the call was made with.
C2_LeafwiseExchange ==
    (InCrossover /\ EqualShapes) =>
        /\ individual_left.shape = parent_left.shape
        /\ individual_right.shape = parent_right.shape
        /\ DOMAIN individual_left.leaves = DOMAIN parent_left.leaves
        /\ DOMAIN individual_right.leaves = DOMAIN parent_right.leaves
        /\ \A i \in DOMAIN parent_left.leaves :
              LET now  == <<individual_left.leaves[i], individual_right.leaves[i]>>
                  orig == <<parent_left.leaves[i], parent_right.leaves[i]>>
              IN  now = orig \/ now = <<orig[2], orig[1]>>

\* C2 witness: a finished crossover with one leaf pair exchanged and another
\* left in place.
C2_Witness ==
    /\ CrossoverDone /\ EqualShapes
    /\ \E i, j \in DOMAIN parent_left.leaves :
          /\ individual_left.leaves[i] = parent_right.leaves[i]
          /\ individual_right.leaves[i] = parent_left.leaves[i]
          /\ individual_left.leaves[j] = parent_left.leaves[j]
          /\ individual_right.leaves[j] = parent_right.leaves[j]

\* C3: with CrossoverMethod::Uniform(0.0) no leaf pair is ever swapped: both
\* individuals are as they were before the call, throughout the traversal and
\* when it is complete.
C3_UniformZeroIdentity ==
    (InCrossover /\ crossover_method = MethodUniform(Frac(0, 1))) =>
        /\ individual_left = parent_left
        /\ individual_right = parent_right

\* C3 witness: a Uniform(0.0) crossover call that has returned, on individuals
\* with leaves inside and outside groups.
C3_Witness ==
    /\ call = "crossover" /\ status = "returned"
    /\ crossover_method = MethodUniform(Frac(0, 1))
    /\ NLeaves(parent_left.shape) >= 3
    /\ GroupLeaves # {}

SeqToBag(seq) ==
    [v \in {seq[i] : i \in DOMAIN seq} |-> Cardinality({i \in DOMAIN seq : seq[i] = v})]

\* the combined multiset of the leaf values of two individuals
LeafBag(a, b) == SeqToBag(a.leaves \o b.leaves)

\* reproduce has built its children and no mutation can have changed them
ChildrenUnmutated ==
    /\ call = "reproduce"
    /\ \/ CrossoverDone
       \/ status \in {"mutate_left", "mutate_right"} /\ mutation_rate = Frac(0, 1)

\* C9: no step of reproduce modifies a parent, and the children, before mutation
\* is applied and throughout a mutation of rate 0, hold together the same
\* multiset of leaf values as the parents.
C9_ReproduceExchanges ==
    [][ (call' = "reproduce") =>
            /\ parent_left' = parent_left
            /\ parent_right' = parent_right
            /\ ChildrenUnmutated' =>
                  LeafBag(individual_left, individual_right)'
                      = LeafBag(parent_left, parent_right)' ]_vars

\* C9 witness: reproduce with mutation rate 0 has finished mutating child_right
\* and some leaf pair of the children is exchanged with respect to the parents.
C9_Witness ==
    /\ call = "reproduce" /\ status = "mutate_right" /\ mutation_rate = Frac(0, 1)
    /\ pc > NLeaves(individual_right.shape)
    /\ \E i \in DOMAIN parent_left.leaves \cap DOMAIN parent_right.leaves :
          /\ individual_left.leaves[i] = parent_right.leaves[i]
          /\ individual_left.leaves[i] # parent_left.leaves[i]

(***************************************************************************)
(* Mutator::multiply_rate (specification SpecMutator).  A Genome impl may  *)
(* nest multiply_rate calls and visit chromosomes at any depth; frames     *)
(* holds, for each call whose callback is running, its old_rate local and  *)
(* its rate_multiplier argument.  The chromosome visited is a bool.        *)
(***************************************************************************)
MaxDepth == 3

InitialRates == {Frac(0, 1), Frac(1, 4), Frac(1, 1)}
Multipliers  == {Frac(-1, 1), Frac(0, 1), Frac(1, 2), Frac(2, 1), Inf, NaN}

BoolChromosome(b) == [enc |-> "bool", ty |-> "bool", value |-> IF b THEN 1 ELSE 0,
                      min |-> 0, max |-> 1, bits |-> 1]

InitMutator ==
    /\ build \in Builds
    /\ rate0 \in InitialRates
    /\ rate = rate0
    /\ frames = <<>>
    /\ ch = BoolChromosome(FALSE) /\ ch_rate = rate0 /\ ch_old = 0
    /\ ch_status = "ready"
    /\ GenomeIdle /\ ReorderIdle

\* a multiply_rate that leaves the callback's rate in place when it returns
RestoredRateKept(frame, current) == current

\* the rate multiply_rate leaves when its callback has returned (traverse.rs 63)
RestoredRate(frame, current) == frame.old_rate

\* new_rate of multiply_rate (traverse.rs 58)
NewRate(current, rate_multiplier) == FClamp01(FMul(current, rate_multiplier))

\* Mutator::multiply_rate up to the call of its callback (traverse.rs 58-61)
MultiplyRate(rate_multiplier) ==
    /\ ch_status # "panicked"
    /\ Len(frames) < MaxDepth
    /\ frames' = Append(frames, [old_rate |-> rate,
                                 rate_multiplier |-> rate_multiplier])
    /\ rate' = NewRate(rate, rate_multiplier)
    /\ UNCHANGED <<build, rate0, genomeVars, scalarVars, reorderVars>>

\* the callback of the innermost multiply_rate returns (traverse.rs 63-64)
MultiplyRateReturn ==
    /\ ch_status # "panicked"
    /\ frames # <<>>
    /\ rate' = RestoredRate(Top(frames), rate)
    /\ frames' = SubSeq(frames, 1, Len(frames) - 1)
    /\ UNCHANGED <<build, rate0, genomeVars, scalarVars, reorderVars>>

\* Mutator::chromosome on a bool, at the session's current rate
\* (traverse.rs 21-28, chromosome/mod.rs 62-68)
VisitChromosome ==
    /\ ch_status # "panicked"
    /\ ch_rate' = rate
    /\ ch_old' = ch.value
    /\ \E v \in BoolMutate(ch.value = 1, rate) :
          IF v = "panic"
          THEN ch_status' = "panicked" /\ UNCHANGED ch
          ELSE ch_status' = "returned" /\ ch' = BoolChromosome(v = "true")
    /\ UNCHANGED <<build, mutatorVars, genomeVars, reorderVars>>

NextMutator ==
    \/ \E f \in Multipliers : MultiplyRate(f)
    \/ MultiplyRateReturn
    \/ VisitChromosome

SpecMutator == InitMutator /\ [][NextMutator]_vars

\* the rate in effect inside the callback of the i-th open multiply_rate call
RateInside(i) == IF i = Len(frames) THEN rate ELSE frames[i + 1].old_rate

\* the rate every open call has computed, and the rate outside all of them
RatesFollowCalls ==
    /\ \A i \in 1..Len(frames) :
          RateInside(i) = FClamp01(FMul(frames[i].old_rate, frames[i].rate_multiplier))
    /\ IF frames = <<>> THEN rate = rate0 ELSE frames[1].old_rate = rate0

\* no open call has multiplied its way to NaN (a NaN multiplier, or an infinite
\* multiplier on a zero rate)
NoNaNProduct ==
    \A i \in 1..Len(frames) : ~IsNaN(FMul(frames[i].old_rate, frames[i].rate_multiplier))

\* C10 as stated: inside every callback the rate is clamp(enclosing rate *
\* factor, 0, 1), every return restores the rate the call found, and the rate is
\* within [0, 1] at every point, whatever the factors are.
C10_AnyFactor ==
    /\ RatesFollowCalls
    /\ InUnit(rate)

\* C10 amended: the same, with the rate within [0, 1] at every point at which
\* no open call has a NaN product (clamp passes NaN through).
C10_RateScoped ==
    /\ RatesFollowCalls
    /\ NoNaNProduct => InUnit(rate) /\ \A i \in 1..Len(frames) : InUnit(frames[i].old_rate)

\* C10 witness: after a nested call has returned (a chromosome saw the rate 1/4
\* at depth 2) the outer callback is back at its own rate 1/2.
C10_Witness ==
    /\ Len(frames) = 1 /\ rate0 = Frac(1, 1)
    /\ frames[1].rate_multiplier = Frac(1, 2)
    /\ rate = Frac(1, 2) /\ ch_rate = Frac(1, 4)

(***************************************************************************)
(* Scalar mutation operators (specification SpecScalar).  The native       *)
(* integer types are modelled at a width of IntBits bits: "u8" stands for  *)
(* the unsigned types, "i8" for the signed ones and "isize" for isize,     *)
(* whose wrapper::FixedBits impl comes from impl_fixed_uint.  An outcome   *)
(* of a mutate call is [ok, value]: whether the call returned, and the     *)
(* value the chromosome holds then (or held when the call panicked).       *)
(***************************************************************************)
IntBits == 3

RECURSIVE Pow2(_)
Pow2(n) == IF n = 0 THEN 1 ELSE 2 * Pow2(n - 1)

Signed(ty) == ty \in {"i8", "isize"}
TMin(ty)   == IF Signed(ty) THEN -Pow2(IntBits - 1) ELSE 0
TMax(ty)   == IF Signed(ty) THEN Pow2(IntBits - 1) - 1 ELSE Pow2(IntBits) - 1
Values(ty) == TMin(ty)..TMax(ty)

Min2(a, b) == IF a < b THEN a ELSE b
Max2(a, b) == IF a > b THEN a ELSE b

\* Ord::clamp
Clamp(v, lo, hi) == IF v < lo THEN lo ELSE IF v > hi THEN hi ELSE v

\* the value of type ty that holds the low IntBits bits of x
Wrap(ty, x) ==
    LET m == x % Pow2(IntBits)
    IN  IF Signed(ty) /\ m >= Pow2(IntBits - 1) THEN m - Pow2(IntBits) ELSE m

\* a - b in type ty: whether it fits, and the wrapped result
Sub(ty, a, b) == [ok |-> (a - b) \in Values(ty), val |-> Wrap(ty, a - b)]

saturating_add(ty, a, b) == Clamp(a + b, TMin(ty), TMax(ty))
saturating_sub(ty, a, b) == Clamp(a - b, TMin(ty), TMax(ty))

\* integer / and %, which truncate toward zero
TruncDiv(a, b) == Sign(a) * Sign(b) * (Abs(a) \div Abs(b))
TruncRem(a, b) == a - b * TruncDiv(a, b)

\* a conversion that rounds to the nearest integer, halves away from zero
CastToIntRounded(ty, f) ==
    IF IsNaN(f) THEN 0
    ELSE IF f[2] = 0 THEN (IF f[1] > 0 THEN TMax(ty) ELSE TMin(ty))
    ELSE Clamp(TruncDiv(2 * f[1] + Sign(f[1]) * f[2], 2 * f[2]), TMin(ty), TMax(ty))

\* `f as $type`: truncation toward zero, saturating, NaN to 0
CastToInt(ty, f) ==
    IF IsNaN(f) THEN 0
    ELSE IF f[2] = 0 THEN (IF f[1] > 0 THEN TMax(ty) ELSE TMin(ty))
    ELSE Clamp(TruncDiv(f[1], f[2]), TMin(ty), TMax(ty))

\* value ^= 1 << bit
XorBit(ty, v, bit) ==
    LET pat == v % Pow2(IntBits)
        set == (pat \div Pow2(bit)) % 2 = 1
    IN  Wrap(ty, IF set THEN pat - Pow2(bit) ELSE pat + Pow2(bit))

RECURSIVE XorBits(_, _, _)
XorBits(ty, v, bits) ==
    IF bits = {} THEN v
    ELSE LET b == CHOOSE x \in bits : TRUE
         IN  XorBits(ty, XorBit(ty, v, b), bits \ {b})

Returned(v) == [ok |-> TRUE, value |-> v]
Panicked(v) == [ok |-> FALSE, value |-> v]

\* an operator without the two debug assertions on the rate
BernoulliOkUnasserted(r, bld) == InUnit(FMul(r, Frac(1, 2)))

\* debug_assert!(rate <= 1.0); debug_assert!(rate >= 0.0);
\* Bernoulli::new(rate * 0.5).expect(..): whether the call gets past them
BernoulliOk(r, bld) ==
    /\ bld = "debug" => InUnit(r)
    /\ InUnit(FMul(r, Frac(1, 2)))

\* the sets of bits that the samples of Bernoulli(rate * 0.5) can flip
FlipSets(bits, r) ==
    LET draws == gen_bool(FMul(r, Frac(1, 2)))
    IN  {S \in SUBSET bits : /\ S # {}   => "true" \in draws
                             /\ S # bits => "false" \in draws}

\* impl_ch_int: every bit of the native type may flip (chromosome/mod.rs 19-36)
BitFlipMutate(c, r, bld) ==
    IF ~BernoulliOk(r, bld) THEN {Panicked(c.value)}
    ELSE {Returned(XorBits(c.ty, c.value, S)) : S \in FlipSets(0..(IntBits - 1), r)}

\* impl_fixed_uint of chromosome/fixed.rs (bits 0..self.bits) and of
\* wrapper/fixed.rs (bits 0..self.bits.min(BITS)); the model gives both
\* bits <= BITS, where they are the same
FixedUintMutate(c, r, bld) ==
    IF ~BernoulliOk(r, bld) THEN {Panicked(c.value)}
    ELSE {Returned(XorBits(c.ty, c.value, S))
            : S \in FlipSets(0..(Min2(c.bits, IntBits) - 1), r)}

\* a sign toggle that subtracts 2^(bits-1) whatever the sign of the value is
ToggleSignSubtract(ty, v, bits) ==
    IF bits = IntBits THEN XorBit(ty, v, bits - 1) ELSE v - Pow2(bits - 1)

\* the sign toggle of impl_fixed_int
ToggleSign(ty, v, bits) ==
    IF bits = IntBits THEN XorBit(ty, v, bits - 1)
    ELSE IF v < 0 THEN v + Pow2(bits - 1)
    ELSE v - Pow2(bits - 1)

\* the clamp of impl_fixed_int into the bits-wide signed range
FixedClamp(v, bits) ==
    IF bits # IntBits THEN Clamp(v, -Pow2(bits - 1), Pow2(bits - 1) - 1) ELSE v

\* impl_fixed_int (chromosome/fixed.rs 43-77, wrapper/fixed.rs 53-90)
FixedIntMutate(c, r, bld) ==
    IF ~BernoulliOk(r, bld) THEN {Panicked(c.value)}
    ELSE LET clamped == FixedClamp(c.value, c.bits)
         IN  UNION { LET v == XorBits(c.ty, clamped, S)
                     IN  {Returned(IF d = "true" THEN ToggleSign(c.ty, v, c.bits) ELSE v)
                            : d \in gen_bool(FMul(r, Frac(1, 2)))}
                     : S \in FlipSets(0..(c.bits - 2), r) }

\* which macro implements FixedBits for a type: wrapper/fixed.rs 92-104 and
\* chromosome/fixed.rs 87-97
FixedMutate(c, r, bld) ==
    IF c.ty = "i8" THEN FixedIntMutate(c, r, bld) ELSE FixedUintMutate(c, r, bld)

\* rng.gen_range(lo..=hi): an empty range is rejected
gen_range(lo, hi, held) ==
    IF lo > hi THEN {Panicked(held)} ELSE {Returned(v) : v \in lo..hi}

\* a window that is always centred on the value: no near-min and near-max
\* branches, no caps on the declared bounds
UniformWindowCentred(ty, value, min, max, range, from_min, from_max) ==
    <<saturating_sub(ty, value, TruncDiv(range, 2)),
      saturating_add(ty, value, TruncDiv(range, 2) + TruncRem(range, 2))>>

\* the sampling window <<low, high>> of impl_uniform_int, for the clamped value,
\* the scaled range, value - min and max - value
UniformWindow(ty, value, min, max, range, from_min, from_max) ==
    LET half_range_low  == TruncDiv(range, 2)
        half_range_high == TruncDiv(range, 2) + TruncRem(range, 2)
    IN  IF from_min <= half_range_low
        THEN <<min, Min2(saturating_add(ty, min, range), max)>>
        ELSE IF from_max <= half_range_high
        THEN <<Max2(saturating_sub(ty, max, range), min), max>>
        ELSE <<Max2(saturating_sub(ty, value, half_range_low), min),
               Min2(saturating_add(ty, value, half_range_high), max)>>

\* the locals of impl_uniform_int's mutate: max - min, the scaled range, the
\* clamped value, value - min, max - value and the window
UniformLocals(c, r) ==
    LET full     == Sub(c.ty, c.max, c.min)
        range    == CastToInt(c.ty, FMul(Frac(full.val, 1), r))
        value    == Clamp(c.value, c.min, c.max)
        from_min == Sub(c.ty, value, c.min)
        from_max == Sub(c.ty, c.max, value)
    IN  [full |-> full, range |-> range, value |-> value,
         from_min |-> from_min, from_max |-> from_max,
         half_range_low |-> TruncDiv(range, 2),
         half_range_high |-> TruncDiv(range, 2) + TruncRem(range, 2),
         window |-> UniformWindow(c.ty, value, c.min, c.max, range,
                                  from_min.val, from_max.val)]

\* impl_uniform_int (chromosome/uniform.rs 26-49, wrapper/uniform.rs 70-95).
\* The subtractions panic on overflow where overflow is checked and wrap
\* otherwise.
UniformMutate(c, r, bld) ==
    LET x == UniformLocals(c, r)
    IN  IF bld = "debug" /\ ~x.full.ok THEN {Panicked(c.value)}
        ELSE IF bld = "debug" /\ ~x.from_min.ok THEN {Panicked(x.value)}
        ELSE IF bld = "debug" /\ ~(x.from_min.val <= x.half_range_low) /\ ~x.from_max.ok
        THEN {Panicked(x.value)}
        ELSE gen_range(x.window[1], x.window[2], x.value)

BoolValueMutate(c, r, bld) ==
    { IF v = "panic" THEN Panicked(c.value) ELSE Returned(IF v = "true" THEN 1 ELSE 0)
      : v \in BoolMutate(c.value = 1, r) }

\* Chromosome::mutate / MutationWrapper::mutate_with of the encoding of c
Mutate(c, r, bld) ==
    IF c.enc = "bitflip" THEN BitFlipMutate(c, r, bld)
    ELSE IF c.enc = "bool" THEN BoolValueMutate(c, r, bld)
    ELSE IF c.enc \in {"fixed_ch", "fixed_wr"} THEN FixedMutate(c, r, bld)
    ELSE UniformMutate(c, r, bld)

Chromosome(enc, ty, value, min, max, bits) ==
    [enc |-> enc, ty |-> ty, value |-> value, min |-> min, max |-> max, bits |-> bits]

\* the chromosomes the calls are made on: every value of the native type,
\* bits in 1..=BITS, min <= max
Chromosomes ==
    {Chromosome("bitflip", ty, v, 0, 0, IntBits) : ty \in {"u8", "i8"}, v \in -Pow2(IntBits)..Pow2(IntBits)}
    \cup {BoolChromosome(b) : b \in BOOLEAN}
    \cup {Chromosome("fixed_ch", ty, v, 0, 0, n)
            : ty \in {"u8", "i8"}, v \in -Pow2(IntBits)..Pow2(IntBits), n \in 1..IntBits}
    \cup {Chromosome("fixed_wr", ty, v, 0, 0, n)
            : ty \in {"u8", "i8", "isize"}, v \in -Pow2(IntBits)..Pow2(IntBits), n \in 1..IntBits}
    \cup {Chromosome("uniform", ty, v, lo, hi, IntBits)
            : ty \in {"u8", "i8"}, v \in -Pow2(IntBits)..Pow2(IntBits),
              lo \in -Pow2(IntBits)..Pow2(IntBits), hi \in -Pow2(IntBits)..Pow2(IntBits)}

WellTyped(c) ==
    c.enc = "bool" \/ (c.value \in Values(c.ty) /\ c.min \in Values(c.ty)
                       /\ c.max \in Values(c.ty) /\ c.min <= c.max)

ScalarRates == {Frac(-1, 2), Frac(0, 1), Frac(1, 4), Frac(1, 2), Frac(1, 1),
                Frac(3, 2), Frac(3, 1)}

InitScalar ==
    /\ build \in Builds
    /\ ch \in {c \in Chromosomes : WellTyped(c)}
    /\ ch_rate \in ScalarRates
    /\ ch_old = ch.value
    /\ ch_status = "ready"
    /\ GenomeIdle /\ MutatorIdle /\ ReorderIdle

\* one call of the chromosome's mutation operator
MutateCall(enc) ==
    /\ ch.enc = enc
    /\ ch_status # "panicked"
    /\ ch_old' = ch.value
    /\ \E o \in Mutate(ch, ch_rate, build) :
          /\ ch' = [ch EXCEPT !.value = o.value]
          /\ ch_status' = IF o.ok THEN "returned" ELSE "panicked"
    /\ UNCHANGED <<build, ch_rate, genomeVars, mutatorVars, reorderVars>>

NextScalar ==
    \/ MutateCall("bitflip")
    \/ MutateCall("bool")
    \/ MutateCall("fixed_ch")
    \/ MutateCall("fixed_wr")
    \/ MutateCall("uniform")

SpecScalar == InitScalar /\ [][NextScalar]_vars

(***************************************************************************)
(* Claims on SpecScalar.                                                   *)
(***************************************************************************)
\* the results a call on the current chromosome can return
Results == {o.value : o \in {x \in Mutate(ch, ch_rate, build) : x.ok}}
CanFail == \E o \in Mutate(ch, ch_rate, build) : ~o.ok

\* C4: for every scalar encoding and every starting value of the native type,
\* a mutate with rate 0.0 returns and leaves the value exactly as it was.
C4_RateZeroUnchanged ==
    ch_rate = Frac(0, 1) /\ ch.enc # "none" =>
        /\ ch_status = "returned" => ch.value = ch_old
        /\ ch_status # "panicked"

\* C5: an integer uniform-walk chromosome with min <= max, whatever its
\* starting value, holds a value in [min, max] after a mutate with a rate in
\* [0, 1] has returned.
C5_UniformWithinBounds ==
    ch.enc = "uniform" /\ ch_status = "returned" /\ InUnit(ch_rate) =>
        ch.min <= ch.value /\ ch.value <= ch.max

C5_Witness ==
    /\ ch.enc = "uniform" /\ ch_status = "returned" /\ ch_rate = Frac(1, 2)
    /\ ch.ty = "i8" /\ ch.min = -1 /\ ch.max = 1
    /\ ch_old = 3 /\ ch.value = 0

\* C6: at rate 1.0 the possible results of one mutate of an integer
\* uniform-walk chromosome are exactly min..max, whatever the value is.
C6_FullInterval ==
    ch.enc = "uniform" /\ ch_rate = Frac(1, 1) /\ ch_status # "panicked" =>
        Results = ch.min..ch.max /\ ~CanFail

\* C7: FixedBits with bits = n on a signed native type (i8..i128, isize): after
\* a mutate with a rate in [0, 1] the value is in [-2^(n-1), 2^(n-1) - 1], and
\* at rate 1.0 every value of that range is a possible result of one mutate.
C7_SignedFixedRange ==
    ch.enc \in {"fixed_ch", "fixed_wr"} /\ Signed(ch.ty) /\ InUnit(ch_rate) =>
        /\ ch_status = "returned" =>
              ch.value \in (-Pow2(ch.bits - 1))..(Pow2(ch.bits - 1) - 1)
        /\ ch_rate = Frac(1, 1) /\ ch_status # "panicked" =>
              (-Pow2(ch.bits - 1))..(Pow2(ch.bits - 1) - 1) \subseteq Results

(***************************************************************************)
(* ReorderGenome::Swap (specification SpecReorder).  vec holds the values  *)
(* of the elements the collected references point to, in genome order;     *)
(* vec0 is the genome as it was when mutate_with was called; rate is the   *)
(* session's rate, mutator.get_rate().                                     *)
(***************************************************************************)
MaxLen == 3

ReorderRates == {Frac(0, 1), Frac(1, 4), Frac(1, 2), Frac(1, 1)}

RECURSIVE SeqsUpTo(_, _)
SeqsUpTo(S, n) ==
    IF n = 0 THEN {<<>>}
    ELSE LET shorter == SeqsUpTo(S, n - 1)
         IN  shorter \cup {Append(q, x) : q \in {t \in shorter : Len(t) = n - 1}, x \in S}

InitReorder ==
    /\ build \in Builds
    /\ vec0 \in SeqsUpTo(1..MaxLen, MaxLen)
    /\ vec = vec0
    /\ rate0 \in ReorderRates
    /\ rate = rate0 /\ frames = <<>>
    /\ swaps = 0
    /\ re_status = "ready"
    /\ GenomeIdle /\ ScalarIdle

\* `as usize`: truncation toward zero, saturating at 0, NaN to 0
CastToUsize(f) ==
    IF IsNaN(f) THEN 0
    ELSE IF f[2] = 0 THEN (IF f[1] > 0 THEN Pow2(IntBits) - 1 ELSE 0)
    ELSE Max2(TruncDiv(f[1], f[2]), 0)

\* a number of swaps without the floor of one swap for a positive rate
SwapCountNoFloor(len, r) == CastToUsize(FMul(Frac(len - 1, 1), r))

\* the number of swaps of one call: (len - 1) * rate, at least one when the
\* rate is positive
SwapCount(len, r) ==
    LET n == CastToUsize(FMul(Frac(len - 1, 1), r))
    IN  IF FLt(Frac(0, 1), r) /\ n = 0 THEN 1 ELSE n

\* a swap that copies one element over the other
SwapAtCopy(v, a, b) == [v EXCEPT ![a + 1] = v[b + 1]]

\* std::mem::swap of the elements at the 0-based indices a and b
SwapAt(v, a, b) == [v EXCEPT ![a + 1] = v[b + 1], ![b + 1] = v[a + 1]]

\* the pair <<index_a, index_b>> after the adjustment of the two draws
OrderedPair(a, b) == IF b >= a THEN <<a, b + 1>> ELSE <<b, a>>

\* collecting the references, the early return on an empty genome and the
\* number of swaps
ReorderCall ==
    /\ re_status = "ready"
    /\ IF Len(vec) = 0
       THEN re_status' = "returned" /\ swaps' = 0
       ELSE re_status' = "swapping" /\ swaps' = SwapCount(Len(vec), rate)
    /\ UNCHANGED <<build, vec, vec0, genomeVars, mutatorVars, scalarVars>>

\* one iteration of the loop
ReorderSwap ==
    /\ re_status = "swapping" /\ swaps > 0
    /\ Len(vec) > 1
    /\ \E a \in 0..(Len(vec) - 1), b \in 0..(Len(vec) - 2) :
          LET pair == OrderedPair(a, b)
          IN  IF build = "debug" /\ ~(pair[1] < pair[2])
              THEN re_status' = "panicked" /\ UNCHANGED <<vec, swaps>>
              ELSE /\ vec' = SwapAt(vec, pair[1], pair[2])
                   /\ swaps' = swaps - 1
                   /\ UNCHANGED re_status
    /\ UNCHANGED <<build, vec0, genomeVars, mutatorVars, scalarVars>>

\* rng.gen_range(0..vec.len() - 1) on a genome of one element: the range is
\* empty
ReorderEmptyRange ==
    /\ re_status = "swapping" /\ swaps > 0
    /\ Len(vec) = 1
    /\ re_status' = "panicked"
    /\ UNCHANGED <<build, vec, vec0, swaps, genomeVars, mutatorVars, scalarVars>>

ReorderReturn ==
    /\ re_status = "swapping" /\ swaps = 0
    /\ re_status' = "returned"
    /\ UNCHANGED <<build, vec, vec0, swaps, genomeVars, mutatorVars, scalarVars>>

NextReorder ==
    \/ ReorderCall
    \/ ReorderSwap
    \/ ReorderEmptyRange
    \/ ReorderReturn

SpecReorder == InitReorder /\ [][NextReorder]_vars

\* C8: whenever ReorderGenome::Swap returns, for a rate in [0, 1], the genome
\* has the length and the multiset of element values it had before, and with
\* rate 0 the order it had before.
C8_SwapPermutes ==
    re_status = "returned" /\ InUnit(rate) =>
        /\ Len(vec) = Len(vec0)
        /\ SeqToBag(vec) = SeqToBag(vec0)
        /\ rate = Frac(0, 1) => vec = vec0

C8_Witness ==
    /\ re_status = "returned" /\ rate = Frac(1, 1)
    /\ vec0 = <<1, 2, 3>> /\ vec = <<3, 1, 2>>

(***************************************************************************)
(* Further properties of crossover and reproduce (specification Spec).     *)
(***************************************************************************)
\* every probability the call hands to the generator is one it accepts
ProbabilitiesValid ==
    /\ InUnit(FMul(crossover_method.rate, Frac(1, 2)))
    /\ InUnit(FMul(mutation_rate, Frac(1, 2)))

\* the two individuals of the call report different sizes, or a size that is
\* not the number of chromosomes visited
SizeHintMismatch ==
    \/ size_hint(parent_left.shape) # size_hint(parent_right.shape)
    \/ parent_left.shape.t = "miscounted"

\* C11: a crossover or reproduce call on individuals whose size_hint values
\* differ, or are wrong, is not detected: the call never ends in an error or
\* an assertion failure, whatever the method.
C11_MismatchUndetected ==
    (call \in {"crossover", "reproduce"} /\ SizeHintMismatch /\ ProbabilitiesValid)
        => status # "panicked"

(***************************************************************************)
(* Further properties of the scalar operators (specification SpecScalar).  *)
(***************************************************************************)
\* C12 as stated: in a build with debug assertions, no scalar mutation
\* operator (bit-flip integer, bool, FixedBits, integer uniform-walk) returns
\* from a call whose rate is below 0 or above 1.
C12_EveryOperatorAsserts ==
    (build = "debug" /\ ~InUnit(ch_rate) /\ ch.enc # "none")
        => ch_status # "returned"

\* C12, amended: in a build with debug assertions the bit-flip integer and
\* FixedBits operators never return from a call whose rate is outside [0, 1];
\* the bool operator, in either build, never returns when rate * 0.5 is not a
\* probability, and always returns when it is one.
C12_AssertingOperators ==
    /\ (build = "debug" /\ ~InUnit(ch_rate)
            /\ ch.enc \in {"bitflip", "fixed_ch", "fixed_wr"})
        => ch_status # "returned"
    /\ ch.enc = "bool" =>
          IF InUnit(FMul(ch_rate, Frac(1, 2)))
          THEN ch_status # "panicked"
          ELSE ch_status # "returned"

\* C12 witness: a bit-flip integer called with rate 1.5 in a debug build has
\* ended in a failure.
C12_Witness ==
    /\ build = "debug" /\ ch_rate = Frac(3, 2)
    /\ ch.enc = "bitflip" /\ ch_status = "panicked"

(***************************************************************************)
(* Sequences of different lengths and the K-point policy (specification    *)
(* Spec).                                                                  *)
(***************************************************************************)
\* a shape is an ordered sequence of chromosomes
FlatVec(s) == s.t = "vec" /\ \A i \in DOMAIN s.items : s.items[i] = Leaf

ShorterLen == IF Len(parent_left.leaves) < Len(parent_right.leaves)
              THEN Len(parent_left.leaves) ELSE Len(parent_right.leaves)

\* C13: a crossover of two ordered sequences of different lengths visits
\* exactly min(len_left, len_right) element pairs, paired by position, and
\* leaves every element at an index beyond the shorter length as it was.
C13_ZipToShorter ==
    (InCrossover /\ FlatVec(parent_left.shape) /\ FlatVec(parent_right.shape)
       /\ Len(parent_left.leaves) # Len(parent_right.leaves)) =>
        /\ \A i \in DOMAIN parent_left.leaves :
              i > ShorterLen => individual_left.leaves[i] = parent_left.leaves[i]
        /\ \A i \in DOMAIN parent_right.leaves :
              i > ShorterLen => individual_right.leaves[i] = parent_right.leaves[i]
        /\ \A i \in 1..ShorterLen :
              LET now  == <<individual_left.leaves[i], individual_right.leaves[i]>>
                  orig == <<parent_left.leaves[i], parent_right.leaves[i]>>
              IN  now = orig \/ now = <<orig[2], orig[1]>>
        /\ (status = "crossover" /\ pc > Len(Itinerary)) => pc - 1 = ShorterLen

\* C13 witness: a crossover of a sequence of 3 with a sequence of 2 has
\* returned with both visited pairs exchanged.
C13_Witness ==
    /\ call = "crossover" /\ status = "returned"
    /\ Len(parent_left.leaves) = 3 /\ Len(parent_right.leaves) = 2
    /\ FlatVec(parent_left.shape) /\ FlatVec(parent_right.shape)
    /\ \A i \in 1..2 : individual_left.leaves[i] = parent_right.leaves[i]
    /\ individual_left.leaves[3] = parent_left.leaves[3]

\* the session the call constructed is a K-point one and its traversal is
\* under way
KPointSession ==
    status = "crossover" /\ method # <<>> /\ method[1].kind = "KPoint"

\* the number of decisions the top-level session has been asked for before
\* token t: one per leaf pair outside a group, one per group
DecisionsBefore(t) ==
    Cardinality({a \in 1..(t - 1) :
                    Depth(a) = 0 /\ Itinerary[a].op \in {"leaf", "open"}})

\* the step is one decision of the top-level K-point session on a leaf pair
KPointLeafStep ==
    /\ KPointSession /\ Len(method) = 1
    /\ pc <= Len(Itinerary) /\ Itinerary[pc].op = "leaf"
    /\ status' = "crossover" /\ pc' = pc + 1

\* the step is one Crossover::group call on the top-level K-point session
KPointGroupStep ==
    /\ KPointSession /\ Len(method) = 1
    /\ pc <= Len(Itinerary) /\ Itinerary[pc].op = "open"
    /\ status' = "crossover" /\ pc' = pc + 1

\* C14: with KPoint(k), k <= size_hint, and a correct size_hint, a complete
\* traversal has taken exactly k transitions: swapped = k at its end.
C14_ExactlyK ==
    (KPointSession /\ pc > Len(Itinerary)
       /\ method[1].desired <= method[1].length
       /\ size_hint(parent_left.shape) = size_hint(parent_right.shape)
       /\ method[1].length = DecisionsBefore(pc))
        => method[1].swapped = method[1].desired

\* C15: under KPoint each decision on a leaf pair outside a group increments
\* swapped by 0 or 1, then count by exactly 1, and the pair is exchanged if and
\* only if swapped is odd after the step.
C15_DecisionStep ==
    [][ KPointLeafStep =>
          /\ method'[1].swapped - method[1].swapped \in {0, 1}
          /\ method'[1].count = method[1].count + 1
          /\ <<individual_left', individual_right'>> =
                IF method'[1].swapped % 2 = 1
                THEN SwapLeaves(individual_left, individual_right,
                                Itinerary[pc].l, Itinerary[pc].r)
                ELSE <<individual_left, individual_right>> ]_vars

\* C16: in every state of a K-point session swapped <= desired and
\* count <= length, length is the left individual's size_hint and desired the
\* k of the call; no K-point call fails on the subtractions desired - swapped
\* and length - count.
C16_KPointBounds ==
    /\ KPointSession =>
          /\ method[1].swapped <= method[1].desired
          /\ method[1].count <= method[1].length
          /\ method[1].length = size_hint(parent_left.shape)
          /\ method[1].desired = crossover_method.amount
    /\ (call = "crossover" /\ crossover_method.kind = "KPoint" /\ status = "panicked")
          => (build = "debug"
              /\ size_hint(parent_left.shape) # size_hint(parent_right.shape))

\* C16 witness: a KPoint(2) traversal of a genome of size_hint 3 is complete
\* and has taken both transitions.
C16_Witness ==
    /\ KPointSession /\ pc > Len(Itinerary)
    /\ method[1].length = 3 /\ method[1].desired = 2 /\ method[1].swapped = 2

\* C17: at a leaf visit of a KPoint traversal at which the leaves not yet
\* decided (length minus the decisions already made) are no more than the
\* transitions still owed (desired - swapped), the transition is taken.
C17_ForcedTransition ==
    [][ (KPointLeafStep
           /\ DecisionsBefore(pc) < method[1].length
           /\ method[1].length - DecisionsBefore(pc)
                 <= method[1].desired - method[1].swapped)
          => method'[1].swapped = method[1].swapped + 1 ]_vars

\* C18: a Crossover::group call draws one decision from the enclosing policy:
\* under KPoint the outer count advances by exactly 1 and swapped by at most 1,
\* the visits inside the callback change neither, and after the group the
\* outer session goes on with its own policy.
C18_GroupOneDecision ==
    [][ /\ KPointGroupStep =>
              /\ method'[1].count = method[1].count + 1
              /\ method'[1].swapped - method[1].swapped \in {0, 1}
              /\ Len(method') = 2 /\ method'[2].kind = "Fixed"
        /\ (KPointSession /\ Len(method) > 1 /\ status' = "crossover") =>
              /\ method'[1] = method[1]
              /\ method' # <<>> ]_vars

(***************************************************************************)
(* Further properties of ReorderGenome::Swap (specification SpecReorder).  *)
(***************************************************************************)
\* floor((n - 1) * rate) for a rate num/den in [0, 1], and 1 in its place
\* when the rate is positive and the floor is 0
ExpectedSwaps(n, r) ==
    LET floor == ((n - 1) * r[1]) \div r[2]
    IN  IF r[1] > 0 /\ floor = 0 THEN 1 ELSE floor

\* after is before with the contents of two distinct in-range indices
\* exchanged
Transposed(before, after) ==
    \E a, b \in 1..Len(before) :
        /\ a < b
        /\ Len(after) = Len(before)
        /\ after[a] = before[b] /\ after[b] = before[a]
        /\ \A i \in 1..Len(before) : i \notin {a, b} => after[i] = before[i]

\* C19: on a sequence of n >= 2 elements with a rate in [0, 1], Swap sets out
\* to perform floor((n - 1) * rate) transpositions, 1 when the rate is positive
\* and that number is 0; every iteration is one transposition of two distinct
\* in-range indices, and the call returns when none is left to perform.
C19_SwapCount ==
    [][ (Len(vec) >= 2 /\ InUnit(rate)) =>
          /\ (re_status = "ready" /\ re_status' # "ready") =>
                /\ re_status' = "swapping"
                /\ swaps' = ExpectedSwaps(Len(vec), rate)
                /\ vec' = vec
          /\ (re_status = "swapping" /\ swaps > 0) =>
                /\ re_status' = "swapping"
                /\ swaps' = swaps - 1
                /\ Transposed(vec, vec')
                /\ \A a \in 0..(Len(vec) - 1), b \in 0..(Len(vec) - 2) :
                      /\ OrderedPair(a, b)[1] < OrderedPair(a, b)[2]
                      /\ OrderedPair(a, b)[2] < Len(vec)
          /\ (re_status = "swapping" /\ swaps = 0) =>
                (re_status' = "returned" /\ vec' = vec) ]_vars

\* C19 witness: a call on three elements with rate 1/4, where floor(2 * 1/4)
\* is 0, has performed its one transposition and returned.
C19_Witness ==
    /\ re_status = "returned" /\ rate = Frac(1, 4)
    /\ vec0 = <<1, 2, 3>> /\ vec = <<3, 2, 1>>

(***************************************************************************)
(* The sampling window of the uniform walk (specification SpecScalar).     *)
(***************************************************************************)
\* a call on the current chromosome gets as far as drawing from its window:
\* none of the subtractions it evaluates is stopped by an overflow check
ReachesWindow ==
    LET x == UniformLocals(ch, ch_rate)
    IN  build = "debug" =>
            /\ x.full.ok /\ x.from_min.ok
            /\ (x.from_min.val <= x.half_range_low) \/ x.from_max.ok

\* C20: for an integer uniform walk with min <= max and a rate in [0, 1] the
\* sampling window [lo, hi] has min <= lo <= clamped value <= hi <= max and
\* hi - lo = range, in all three branches.
C20_WindowExact ==
    (ch.enc = "uniform" /\ InUnit(ch_rate) /\ ch_status # "panicked" /\ ReachesWindow) =>
        LET x  == UniformLocals(ch, ch_rate)
            lo == x.window[1]
            hi == x.window[2]
        IN  /\ ch.min <= lo /\ lo <= x.value /\ x.value <= hi /\ hi <= ch.max
            /\ hi - lo = x.range

(***************************************************************************)
(* The scaled range of the uniform walk (specification SpecScalar).        *)
(***************************************************************************)
\* the integers nearest to, and below, the fraction a * num / den
Nearest(a, r) ==
    LET n == 2 * a * r[1] + r[2]
    IN  (n - (n % (2 * r[2]))) \div (2 * r[2])
Floor(a, r) == (a * r[1] - ((a * r[1]) % r[2])) \div r[2]

\* the call on the current chromosome computes its range and halves: it is a
\* uniform walk with a rate in [0, 1] that max - min does not stop
ComputesRange ==
    /\ ch.enc = "uniform" /\ InUnit(ch_rate) /\ ch_status # "panicked"
    /\ build = "debug" => (ch.max - ch.min) \in Values(ch.ty)

\* C21 as stated: range is (max - min) * rate rounded to the nearest integer,
\* half_low = floor(range / 2), half_high = range - half_low >= half_low.
C21_RoundedRange ==
    ComputesRange =>
        LET x == UniformLocals(ch, ch_rate)
        IN  /\ x.range = Nearest(ch.max - ch.min, ch_rate)
            /\ x.half_range_low = Floor(x.range, Frac(1, 2))
            /\ x.half_range_high = x.range - x.half_range_low
            /\ x.half_range_high >= x.half_range_low

\* C21, amended: range is d * rate truncated toward zero, where d is max - min
\* as the type holds it (wrapped when it overflows); half_low is range / 2
\* truncated toward zero and half_high = range - half_low; when max - min fits
\* the type, range = floor((max - min) * rate) >= 0, half_low = floor(range / 2)
\* and half_high >= half_low.
C21_TruncatedRange ==
    ComputesRange =>
        LET x == UniformLocals(ch, ch_rate)
            d == IF Signed(ch.ty) /\ ch.max - ch.min >= Pow2(IntBits - 1)
                 THEN ch.max - ch.min - Pow2(IntBits)
                 ELSE ch.max - ch.min
            t == IF d >= 0 THEN Floor(d, ch_rate) ELSE -Floor(-d, ch_rate)
        IN  /\ x.range = t
            /\ x.half_range_low =
                  IF t >= 0 THEN Floor(t, Frac(1, 2)) ELSE -Floor(-t, Frac(1, 2))
            /\ x.half_range_high = x.range - x.half_range_low
            /\ d = ch.max - ch.min =>
                  /\ x.range = Floor(ch.max - ch.min, ch_rate) /\ x.range >= 0
                  /\ x.half_range_low = Floor(x.range, Frac(1, 2))
                  /\ x.half_range_high >= x.half_range_low

\* C21 witness: a walk in [0, 7] at rate 1/4, where 7 * 1/4 = 1.75 gives
\* range 1, has stepped from 4 to 5 (half_low 0, half_high 1).
C21_Witness ==
    /\ ch.enc = "uniform" /\ ch.ty = "u8" /\ ch_status = "returned"
    /\ ch.min = 0 /\ ch.max = 7 /\ ch_rate = Frac(1, 4)
    /\ UniformLocals(ch, ch_rate).range = 1
    /\ ch_old = 4 /\ ch.value = 5

(***************************************************************************)
(* Signed FixedBits against a true bits-wide integer (specification        *)
(* SpecScalar).                                                            *)
(***************************************************************************)
\* the n-bit two's-complement pattern of v, and the value of a pattern
NarrowPattern(v, n) == v % Pow2(n)
NarrowValue(p, n)   == IF p >= Pow2(n - 1) THEN p - Pow2(n) ELSE p

\* pattern p with bit b flipped
NarrowFlip(p, b) == IF (p \div Pow2(b)) % 2 = 1 THEN p - Pow2(b) ELSE p + Pow2(b)

RECURSIVE NarrowFlips(_, _)
NarrowFlips(p, bits) ==
    IF bits = {} THEN p
    ELSE LET b == CHOOSE x \in bits : TRUE
         IN  NarrowFlips(NarrowFlip(p, b), bits \ {b})

\* the results of bit-flip mutation of a true n-bit signed integer holding v:
\* each of its n bits flips on its own sample of Bernoulli(rate * 0.5)
NarrowResults(v, n, r) ==
    {NarrowValue(NarrowFlips(NarrowPattern(v, n), S), n) : S \in FlipSets(0..(n - 1), r)}

\* the chromosome is a FixedBits of impl_fixed_int, narrower than the native
\* width, whose value is inside the bits-wide range
NarrowSigned ==
    /\ ch.enc \in {"fixed_ch", "fixed_wr"} /\ ch.ty = "i8"
    /\ ch.bits < IntBits
    /\ ch.value \in (-Pow2(ch.bits - 1))..(Pow2(ch.bits - 1) - 1)

PlainCall ==
    /\ call # "none"
    /\ PlainShape(parent_left.shape)
    /\ call # "mutate" => parent_right.shape = parent_left.shape

\* the rates of the call are probabilities
ValidRates ==
    /\ (call \in {"crossover", "reproduce"} /\ crossover_method.kind = "Uniform")
          => InUnit(crossover_method.rate)
    /\ call \in {"reproduce", "mutate"} => InUnit(mutation_rate)

Traversing == status \in {"crossover", "mutate_left", "mutate_right"}

\* the per-leaf calls the traversal under way makes, in order: the leaf (pair)
\* each one is made on
LeafCalls ==
    IF status = "crossover"
    THEN [t \in 1..Len(Itinerary) |-> <<Itinerary[t].op, Itinerary[t].l, Itinerary[t].r>>]
    ELSE [t \in 1..NLeaves(Mutated.shape) |-> <<"leaf", t, t>>]

TraversedShape == IF status = "crossover" THEN individual_left.shape ELSE Mutated.shape

\* the traversal under way leaves every leaf but those of call t as they are
OnlyLeafTouched(t) ==
    /\ \A i \in DOMAIN individual_left.leaves :
          (i # LeafCalls[t][2] \/ status = "mutate_right")
             => individual_left'.leaves[i] = individual_left.leaves[i]
    /\ \A i \in DOMAIN individual_right.leaves :
          (i # LeafCalls[t][3] \/ status = "mutate_left")
             => individual_right'.leaves[i] = individual_right.leaves[i]

\* C23: on genomes of leaves, sequences and tuples (equal shapes for a
\* crossover) the per-leaf calls of a traversal are one for every leaf, in
\* declared order, size_hint() of them; each step makes the next call and
\* touches that leaf only, the traversal ends only after the last call, and
\* with rates that are probabilities it always ends by returning.
C23_TraversalCompletes ==
    /\ [](PlainCall /\ Traversing =>
            /\ Len(LeafCalls) = size_hint(TraversedShape)
            /\ \A t \in 1..Len(LeafCalls) : LeafCalls[t] = <<"leaf", t, t>>
            /\ pc \in 1..(Len(LeafCalls) + 1))
    /\ [][(PlainCall /\ Traversing) =>
            IF status' = status
            THEN pc' = pc + 1 /\ pc <= Len(LeafCalls) /\ OnlyLeafTouched(pc)
            ELSE status' = "panicked"
                 \/ (pc = size_hint(TraversedShape) + 1
                     /\ individual_left' = individual_left
                     /\ individual_right' = individual_right)]_vars
    /\ (PlainCall /\ ValidRates /\ Traversing) ~> (status = "returned")

\* C23 witness: the crossover traversal of a tuple of a leaf and a sequence of
\* two leaves (size_hint 3) has made its three decisions and is about to
\* return.
C23_Witness ==
    /\ PlainCall /\ status = "crossover"
    /\ individual_left.shape = Tuple(<<Leaf, Vec(<<Leaf, Leaf>>)>>)
    /\ size_hint(individual_left.shape) = 3
    /\ pc = 4 /\ pc > Len(Itinerary)

(***************************************************************************)
(* Failures of ReorderGenome::Swap (specification SpecReorder) and of the  *)
(* integer uniform walk (specification SpecScalar).                        *)
(***************************************************************************)
\* C24: ReorderGenome::Swap completes without failure (no empty-range draw,
\* no index out of bounds, no violated index_a < index_b) for every length
\* n >= 0, n = 1 included, and every rate in [0, 1].
C24_SwapNeverFails ==
    InUnit(rate) =>
        /\ re_status # "panicked"
        /\ (re_status = "swapping" /\ swaps > 0) =>
              /\ Len(vec) - 1 > 0
              /\ \A a \in 0..(Len(vec) - 1), b \in 0..(Len(vec) - 2) :
                    /\ OrderedPair(a, b)[1] < OrderedPair(a, b)[2]
                    /\ OrderedPair(a, b)[2] <= Len(vec) - 1

\* C25: for every integer type, bounds min <= max, starting value and rate in
\* [0, 1], the integer uniform walk performs no arithmetic overflow: max - min,
\* value - min, max - value and the window endpoints stay in the type's range.
C25_NoOverflow ==
    (ch.enc = "uniform" /\ InUnit(ch_rate) /\ ch.min <= ch.max) =>
        LET x == UniformLocals(ch, ch_rate)
        IN  /\ ch_status # "panicked"
            /\ x.full.ok
            /\ x.from_min.ok
            /\ x.from_max.ok
            /\ x.window[1] \in Values(ch.ty) /\ x.window[2] \in Values(ch.ty)

(***************************************************************************)
(* The crossover points of a K-point crossover (specification Spec).       *)
(***************************************************************************)
\* the leaf pairs visited so far, as positions of the itinerary
VisitedLeaves == {t \in 1..Len(Itinerary) : Itinerary[t].op = "leaf" /\ Visited(t)}

\* whether the leaf pair visited just before t is exchanged; unswapped before
\* the first one
ExchangedBefore(t) ==
    LET before == {u \in VisitedLeaves : u < t}
    IN  IF before = {} THEN FALSE
        ELSE Exchanged(CHOOSE u \in before : \A w \in before : w <= u)

\* the number of leaf pairs whose status differs from that of the pair before
StatusChanges == Cardinality({t \in VisitedLeaves : Exchanged(t) # ExchangedBefore(t)})

\* the two values of every leaf pair of the traversal differ, so that an
\* exchange shows
PairsDiffer ==
    \A t \in 1..Len(Itinerary) :
        Itinerary[t].op = "leaf"
            => parent_left.leaves[Itinerary[t].l] # parent_right.leaves[Itinerary[t].r]

\* C26: in a KPoint(k) crossover the swapped / unswapped status of consecutive
\* leaf pairs, unswapped before the first, changes at most k times along the
\* traversal, whatever the genome and the draws; KPoint(0) leaves both
\* individuals as they were.
C26_AtMostKPoints ==
    (InCrossover /\ crossover_method.kind = "KPoint") =>
        /\ PairsDiffer => StatusChanges <= crossover_method.amount
        /\ crossover_method.amount = 0 =>
              /\ individual_left = parent_left
              /\ individual_right = parent_right

\* C26 witness: a KPoint(2) crossover of two three-leaf sequences has returned
\* with the middle pair exchanged and the outer ones in place: two changes.
C26_Witness ==
    /\ call = "crossover" /\ status = "returned"
    /\ crossover_method = MethodKPoint(2)
    /\ parent_left.shape = Vec(<<Leaf, Leaf, Leaf>>) /\ EqualShapes /\ PairsDiffer
    /\ ~Exchanged(1) /\ Exchanged(2) /\ ~Exchanged(3)
    /\ StatusChanges = 2

====
